---- MODULE Spec2Model ----
(***************************************************************************)
(* Model of the birthday_wisher render pipeline: app.render_video, which   *)
(* generates an intro clip (intro_generator.create_intro_video), composites*)
(* the main clip (render.main), generates an outro clip                    *)
(* (outro_generator.create_outro_video) and concatenates the three         *)
(* (outro_generator.concatenate_videos_with_outro); and render.main run on *)
(* its own from the command line.  Every external process (ffprobe, ffmpeg,*)
(* the ffmpeg that moviepy's write_videofile drives) is a Launch step      *)
(* followed by a Finish step of the request that called it; the request    *)
(* blocks in between.  Two requests run concurrently in one server process.*)
(* PlanSpec follows one call of render.main through the values it resolves *)
(* from template.json, the filter graph and command it builds from them,   *)
(* and what ffmpeg's filters make of the customer photo.  EditorSpec       *)
(* follows one session of the raw JSON editor of app.py: the text the      *)
(* operator saves, what json.loads makes of it, and what reaches           *)
(* template.json and the session's template_config.                        *)
(***************************************************************************)
EXTENDS Integers, Sequences, FiniteSets, TLC

VARIABLES req, files, plan, editor

vars == <<req, files, plan, editor>>

(***************************************************************************)
(* Bounds and the environment the requests run in.                         *)
(***************************************************************************)
Requests == {1, 2}

MaxTs == 2

Timestamps == 1 .. MaxTs

\* The output name each request was given; the two differ.
OutputName(r) == IF r = 1 THEN "a" ELSE "b"

OutputNames == {OutputName(r) : r \in Requests}

RetCodes == {0, 1}

Empty == <<>>

\* dict.get as it would be if the stored value were never looked at.
Get_default(d, key, default) == default

\* dict.get(key, default)
Get(d, key, default) == IF key \in DOMAIN d THEN d[key] ELSE default

DefaultW == 1080

DefaultH == 1920

GeneratorFps == 30

DefaultFps == 30

DefaultTemplateVideo == "template.mp4"

\* The template folders on disk; each is one situation of the template's files:
\*   plain       template.json without optional fields, template.mp4 a video
\*   fps24       output.fps 24, template_video alt.mp4, no template.mp4
\*   alt         template_video alt.mp4, template.mp4 without a video stream
\*   nocfg       no template.json
\*   novideo     no template.mp4
\*   nostream    template.mp4 without a video stream
\*   unreadable  template.mp4 on which ffprobe exits non-zero
\*   garbled     template.mp4 whose probe prints no JSON
TemplateFolders ==
  {"plain", "fps24", "alt", "nocfg", "novideo", "nostream", "unreadable", "garbled"}

NoConfig == [missing |-> TRUE]

Placeholder == [x |-> 100, y |-> 200, w |-> 800, h |-> 800]

\* The parsed template.json of a folder (NoConfig: the file does not exist).
TemplateJson(t) ==
  CASE t = "nocfg" -> NoConfig
    [] t = "fps24" -> [placeholder |-> Placeholder, template_video |-> "alt.mp4",
                       output |-> [fps |-> 24]]
    [] t = "alt"   -> [placeholder |-> Placeholder, template_video |-> "alt.mp4",
                       output |-> [fps |-> 30]]
    [] OTHER       -> [placeholder |-> Placeholder]

\* What a video file of a folder is: missing, a decodable video, a file without
\* a video stream, a file ffprobe exits non-zero on, or one whose probe prints
\* no JSON at all.
VideoKind(t, f) ==
  CASE t \in {"alt", "fps24"} /\ f = "alt.mp4" -> "video"
    [] f # "template.mp4"                      -> "missing"
    [] t \in {"novideo", "fps24"}              -> "missing"
    [] t \in {"nostream", "alt"}               -> "nostreams"
    [] t = "unreadable"                        -> "unreadable"
    [] t = "garbled"                           -> "garbled"
    [] OTHER                                   -> "video"

VideoExists(t, f) == VideoKind(t, f) # "missing"

VideoDims(t, f) ==
  IF f # "alt.mp4" THEN <<720, 1280>>
  ELSE IF t = "fps24" THEN <<1080, 1920>> ELSE <<1920, 1080>>

\* What the ffprobe process returns for a file: its exit status and its stdout.
Probe(t, f) ==
  CASE VideoKind(t, f) = "video"      -> [rc |-> 0, out |-> "streams", dims |-> VideoDims(t, f)]
    [] VideoKind(t, f) = "nostreams"  -> [rc |-> 0, out |-> "nostreams", dims |-> <<0, 0>>]
    [] VideoKind(t, f) = "unreadable" -> [rc |-> 1, out |-> "nostreams", dims |-> <<0, 0>>]
    [] OTHER                          -> [rc |-> 1, out |-> "notjson", dims |-> <<0, 0>>]

(***************************************************************************)
(* Files.  A path is <<kind, name, number>>; a file's content records who  *)
(* wrote it and, for a clip, its video parameters.                         *)
(***************************************************************************)
ServerPid == "pid"

IntroPath(ts) == <<"intro", "", ts>>

MainPath(ts) == <<"main", "", ts>>

OutroPath(ts) == <<"outro", "", ts>>

TempIntroPath == <<"temp_intro", ServerPid, 0>>

TempOutroPath == <<"temp_outro", ServerPid, 0>>

ConcatListPath == <<"concat_list", "", 0>>

FinalPath(name, ts) == <<"final", name, ts>>

CliOutPath(r) == <<"cli_out", "", r>>

Paths ==
  {IntroPath(ts) : ts \in Timestamps} \cup {MainPath(ts) : ts \in Timestamps}
  \cup {OutroPath(ts) : ts \in Timestamps}
  \cup {TempIntroPath, TempOutroPath, ConcatListPath}
  \cup {FinalPath(n, ts) : n \in OutputNames, ts \in Timestamps}
  \cup {CliOutPath(r) : r \in Requests}

NoFile == [by |-> 0, w |-> 0, h |-> 0, fps |-> 0, whole |-> FALSE, list |-> <<>>]

Clip(r, w, h, fps, whole) ==
  [by |-> r, w |-> w, h |-> h, fps |-> fps, whole |-> whole, list |-> <<>>]

ListFile(r, entries) ==
  [by |-> r, w |-> 0, h |-> 0, fps |-> 0, whole |-> TRUE, list |-> entries]

FileExists(p) == files[p].by # 0

(***************************************************************************)
(* Errors.  cls is the Python exception class, site the raise statement,   *)
(* carries what the exception's argument is: a message text, the bare exit *)
(* status of the process, or the process's captured stderr.                *)
(***************************************************************************)
NoErr ==
  [cls |-> "none", site |-> "none", carries |-> "none", code |-> 0,
   diag |-> "none", wrapped |-> FALSE]

Err(cls, site, carries, code, diag) ==
  [cls |-> cls, site |-> site, carries |-> carries, code |-> code,
   diag |-> diag, wrapped |-> FALSE]

\* SystemExit derives from BaseException, not from Exception.
IsException(cls) ==
  cls \in {"CalledProcessError", "JSONDecodeError", "RuntimeError", "OSError"}

\* The stderr text an external process of step s prints.
Stderr(s) == s

(***************************************************************************)
(* Pure parts of the code.                                                 *)
(***************************************************************************)
\* intro_generator.get_video_dimensions: the exit status is not looked at; an
\* output without streams falls back to the default canvas.
get_video_dimensions(p) ==
  IF p.out = "notjson"
  THEN [ok |-> FALSE, dims |-> <<0, 0>>,
        err |-> Err("JSONDecodeError", "get_video_dimensions", "message", 0, "none")]
  ELSE IF p.out = "nostreams"
  THEN [ok |-> TRUE, dims |-> <<DefaultW, DefaultH>>, err |-> NoErr]
  ELSE [ok |-> TRUE, dims |-> p.dims, err |-> NoErr]

\* outro_generator.get_video_dimensions: the same function, defined again.
outro_get_video_dimensions(p) ==
  IF p.out = "notjson"
  THEN [ok |-> FALSE, dims |-> <<0, 0>>,
        err |-> Err("JSONDecodeError", "get_video_dimensions", "message", 0, "none")]
  ELSE IF p.out = "nostreams"
  THEN [ok |-> TRUE, dims |-> <<DefaultW, DefaultH>>, err |-> NoErr]
  ELSE [ok |-> TRUE, dims |-> p.dims, err |-> NoErr]

\* ffprobe_size as it would be if it fell back to the default canvas the way
\* the generators do.
ffprobe_size_fallback(p) ==
  IF p.out = "streams"
  THEN [ok |-> TRUE, dims |-> p.dims, err |-> NoErr]
  ELSE [ok |-> TRUE, dims |-> <<DefaultW, DefaultH>>, err |-> NoErr]

\* render.ffprobe_size: check_output raises on a non-zero status; an output
\* without streams ends the render.
ffprobe_size(p) ==
  IF p.rc # 0
  THEN [ok |-> FALSE, dims |-> <<0, 0>>,
        err |-> Err("CalledProcessError", "ffprobe_size", "status", p.rc, "none")]
  ELSE IF p.out = "notjson"
  THEN [ok |-> FALSE, dims |-> <<0, 0>>,
        err |-> Err("JSONDecodeError", "ffprobe_size", "message", 0, "none")]
  ELSE IF p.out = "nostreams"
  THEN [ok |-> FALSE, dims |-> <<0, 0>>,
        err |-> Err("SystemExit", "ffprobe_size", "message", 0, "none")]
  ELSE [ok |-> TRUE, dims |-> p.dims, err |-> NoErr]

\* run as it would be if it did not look at the return code.
run_unchecked(rc) == NoErr

\* render.run: a non-zero status becomes SystemExit(returncode); the process's
\* output is not captured.
run(rc) ==
  IF rc # 0 THEN Err("SystemExit", "run", "status", rc, "none") ELSE NoErr

\* render.ensure_ffmpeg: any failure of a version check becomes SystemExit.
ensure_ffmpeg(rc) ==
  IF rc # 0 THEN Err("SystemExit", "ensure_ffmpeg", "message", 0, "none") ELSE NoErr

\* subprocess.run(..., capture_output=True, check=True) of the generators.
add_audio(s, rc) ==
  IF rc # 0 THEN Err("CalledProcessError", s, "status", rc, "none") ELSE NoErr

\* clip.write_videofile of the generators.
write_videofile(s, rc) ==
  IF rc # 0 THEN Err("OSError", s, "message", 0, "none") ELSE NoErr

\* unlink as it would be if missing_ok were not passed.
unlink_strict(exists, missing_ok) ==
  IF ~exists THEN Err("OSError", "unlink", "message", 0, "none") ELSE NoErr

\* Path.unlink(missing_ok=...): FileNotFoundError (an OSError) for a missing
\* file unless missing_ok.
unlink(exists, missing_ok) ==
  IF ~exists /\ ~missing_ok
  THEN Err("OSError", "unlink", "message", 0, "none")
  ELSE NoErr

\* outro_generator.concatenate_videos_with_outro, after the process returned.
concat_result(rc) ==
  IF rc # 0
  THEN Err("RuntimeError", "concatenate", "stderr", 0, Stderr("concat"))
  ELSE NoErr

\* app.render_video's "except Exception": the error is wrapped into
\* Exception("Rendering failed: ..."); SystemExit passes through.
render_video_except(e) ==
  IF IsException(e.cls) THEN [e EXCEPT !.wrapped = TRUE] ELSE e

\* The render button's "except Exception": st.error shows the message.
button_except(e) == e.wrapped \/ IsException(e.cls)

\* What the interpreter writes to stderr when render.py ends with error e:
\* the argument of SystemExit when it is a text, nothing when it is a status,
\* the traceback of any other exception.
Printed(e) ==
  CASE e.cls = "none" -> "nothing"
    [] e.cls = "SystemExit" /\ e.carries = "message" -> "message"
    [] e.cls = "SystemExit" -> "nothing"
    [] OTHER -> "traceback"

\* The processes render.py starts without redirecting their stderr: ffprobe
\* in ffprobe_size (check_output captures stdout only) and the encode in run;
\* the version checks of ensure_ffmpeg send theirs to DEVNULL.
InheritsStderr(s) == s \in {"main_probe", "main_encode"}

\* ExitCode as it would be if only an explicit status were turned into the
\* exit status.
ExitCode_status_only(e) ==
  IF e.cls = "SystemExit" /\ e.carries = "status" THEN e.code ELSE 0

\* The exit status of the interpreter when render.py ends with error e.
ExitCode(e) ==
  IF e.cls = "none" THEN 0
  ELSE IF e.cls = "SystemExit" /\ e.carries = "status" THEN e.code
  ELSE 1

(***************************************************************************)
(* The requests.                                                           *)
(***************************************************************************)
ProcessSteps ==
  {"intro_probe", "intro_write", "intro_audio", "ensure_ffmpeg", "ensure_ffprobe",
   "main_probe", "main_encode", "outro_probe", "outro_write", "outro_audio", "concat"}

IdleRequest ==
  [pc |-> "idle", mode |-> "none", tmpl |-> "none", ts |-> 0, name |-> "none",
   running |-> {}, launched |-> <<>>, rcs |-> <<>>,
   err |-> NoErr, handled |-> FALSE, exit |-> -1,
   introDim |-> <<0, 0>>, outroDim |-> <<0, 0>>, canvas |-> <<0, 0>>,
   tvideo |-> "none", fps |-> 0, img |-> "unknown",
   inbuf |-> NoFile, concatIn |-> <<>>, touched |-> {}, unlinked |-> "none"]

\* Raise as it would be if the failed step were tried again.
Raise_retry(rq, e) == [rq EXCEPT !.running = {}]

\* The exception e leaves the running call: through render_video's handler
\* and the button's in the app, to the interpreter on the command line.
Raise(rq, e) ==
  IF rq.mode = "app"
  THEN [rq EXCEPT !.pc = "failed", !.running = {},
                  !.err = render_video_except(e),
                  !.handled = button_except(render_video_except(e))]
  ELSE [rq EXCEPT !.pc = "failed", !.running = {}, !.err = e,
                  !.exit = ExitCode(e)]

Finished(rq, rc) ==
  [rq EXCEPT !.running = {}, !.rcs = Append(@, rc)]

\* Where a generator starts: with the probe when it was handed a template
\* video that exists, with the default canvas otherwise.
GeneratorEntry(rq, probeStep, writeStep) ==
  IF VideoExists(rq.tmpl, DefaultTemplateVideo) THEN probeStep ELSE writeStep

TypeOK ==
  /\ \A r \in Requests : req[r].pc \in
        ProcessSteps \cup {"idle", "main_resolve", "concat_list", "done", "failed"}
  /\ \A p \in Paths : files[p].by \in Requests \cup {0}

\* No run of render.main's planning is under way.
NoPlan == [pc |-> "start"]

\* No session has the template editor open.
NoEditor == [open |-> FALSE]

Init ==
  /\ req = [r \in Requests |-> IdleRequest]
  /\ files = [p \in Paths |-> NoFile]
  /\ plan = NoPlan
  /\ editor = NoEditor

\* app.render_video up to the call of create_intro_video, or render.py's
\* command line up to the call of main.  A command-line run is its own
\* operating-system process and shares no file with the server's requests,
\* so it is taken to run alone.
Start(r) ==
  /\ req[r].pc = "idle"
  /\ \E t \in TemplateFolders :
       \/ /\ \A s \in Requests : req[s].mode # "cli"
          /\ \E ts \in Timestamps :
            req' = [req EXCEPT ![r] =
              [@ EXCEPT !.mode = "app", !.tmpl = t, !.ts = ts,
                        !.name = OutputName(r),
                        !.introDim = IF VideoExists(t, DefaultTemplateVideo)
                                     THEN <<0, 0>> ELSE <<DefaultW, DefaultH>>,
                        !.pc = IF VideoExists(t, DefaultTemplateVideo)
                               THEN "intro_probe" ELSE "intro_write"]]
       \/ /\ \A s \in Requests : req[s].mode = "none"
          /\ req' = [req EXCEPT ![r] =
              [@ EXCEPT !.mode = "cli", !.tmpl = t, !.pc = "ensure_ffmpeg"]]
  /\ UNCHANGED files
  /\ UNCHANGED <<plan, editor>>

\* An external process that reads no file of the pipeline is started.
Launch(r) ==
  /\ req[r].pc \in ProcessSteps \ {"intro_audio", "outro_audio", "concat"}
  /\ req[r].running = {}
  /\ req' = [req EXCEPT ![r] =
       [@ EXCEPT !.running = {req[r].pc}, !.launched = Append(@, req[r].pc)]]
  /\ UNCHANGED files
  /\ UNCHANGED <<plan, editor>>

\* The ffmpeg that adds the silent audio track is started: it opens the
\* temp file the generator has just written.
LaunchAudio(r) ==
  /\ req[r].pc \in {"intro_audio", "outro_audio"}
  /\ req[r].running = {}
  /\ LET temp == IF req[r].pc = "intro_audio" THEN TempIntroPath ELSE TempOutroPath
     IN req' = [req EXCEPT ![r] =
          [@ EXCEPT !.running = {req[r].pc}, !.launched = Append(@, req[r].pc),
                    !.inbuf = files[temp], !.touched = @ \cup {temp}]]
  /\ UNCHANGED files
  /\ UNCHANGED <<plan, editor>>

\* get_video_dimensions of create_intro_video returns.
FinishIntroProbe(r) ==
  /\ req[r].pc = "intro_probe" /\ req[r].running = {"intro_probe"}
  /\ LET p == Probe(req[r].tmpl, DefaultTemplateVideo)
         d == get_video_dimensions(p)
     IN req' = [req EXCEPT ![r] =
          IF d.ok
          THEN [Finished(@, p.rc) EXCEPT !.introDim = d.dims, !.pc = "intro_write"]
          ELSE Raise(Finished(@, p.rc), d.err)]
  /\ UNCHANGED files
  /\ UNCHANGED <<plan, editor>>

\* clip.write_videofile of create_intro_video returns: the frames were
\* encoded at the generator's own frame rate into temp_intro_<pid>.mp4.
FinishIntroWrite(r) ==
  /\ req[r].pc = "intro_write" /\ req[r].running = {"intro_write"}
  /\ \E rc \in RetCodes, partial \in BOOLEAN :
       LET e == write_videofile("intro_write", rc)
           wrote == rc = 0 \/ partial
           d == req[r].introDim
       IN /\ rc = 0 => ~partial
          /\ files' = IF wrote
                      THEN [files EXCEPT ![TempIntroPath] =
                              Clip(r, d[1], d[2], GeneratorFps, rc = 0)]
                      ELSE files
          /\ req' = [req EXCEPT ![r] =
               IF e = NoErr
               THEN [Finished(@, rc) EXCEPT !.pc = "intro_audio",
                                            !.touched = @ \cup {TempIntroPath}]
               ELSE [Raise(Finished(@, rc), e) EXCEPT
                       !.touched = IF wrote THEN @ \cup {TempIntroPath} ELSE @]]
  /\ UNCHANGED <<plan, editor>>

\* The audio ffmpeg of create_intro_video returns: on success the intro clip
\* holds the temp file's video stream (-c:v copy) and the temp file is
\* unlinked; on failure check=True raises and the temp file stays.
FinishIntroAudio(r) ==
  /\ req[r].pc = "intro_audio" /\ req[r].running = {"intro_audio"}
  /\ \E rc \in RetCodes, partial \in BOOLEAN :
       LET e == add_audio("intro_audio", rc)
           in == req[r].inbuf
           out == IntroPath(req[r].ts)
           wrote == in.by # 0 /\ (rc = 0 \/ partial)
       IN /\ rc = 0 => (in.by # 0 /\ in.whole /\ ~partial)
          /\ files' = [q \in Paths |->
               IF q = out /\ wrote THEN Clip(r, in.w, in.h, in.fps, rc = 0)
               ELSE IF q = TempIntroPath /\ e = NoErr THEN NoFile
               ELSE files[q]]
          /\ req' = [req EXCEPT ![r] =
               IF e = NoErr
               THEN [Finished(@, rc) EXCEPT !.pc = "ensure_ffmpeg", !.inbuf = NoFile,
                                            !.touched = @ \cup {out}]
               ELSE [Raise(Finished(@, rc), e) EXCEPT !.inbuf = NoFile,
                       !.touched = IF wrote THEN @ \cup {out} ELSE @]]
  /\ UNCHANGED <<plan, editor>>

\* One of ensure_ffmpeg's two version checks returns.
FinishEnsure(r) ==
  /\ req[r].pc \in {"ensure_ffmpeg", "ensure_ffprobe"}
  /\ req[r].running = {req[r].pc}
  /\ \E rc \in RetCodes :
       LET e == ensure_ffmpeg(rc)
       IN req' = [req EXCEPT ![r] =
            IF e = NoErr
            THEN [Finished(@, rc) EXCEPT
                    !.pc = IF req[r].pc = "ensure_ffmpeg"
                           THEN "ensure_ffprobe" ELSE "main_resolve"]
            ELSE Raise(Finished(@, rc), e)]
  /\ UNCHANGED files
  /\ UNCHANGED <<plan, editor>>

\* render.main between ensure_ffmpeg and ffprobe_size: the config is read,
\* the template video and the customer image are looked up.
MainResolve(r) ==
  /\ req[r].pc = "main_resolve"
  /\ \E imgExists \in BOOLEAN :
       LET cfg == TemplateJson(req[r].tmpl)
           tv == Get(cfg, "template_video", DefaultTemplateVideo)
           fps == Get(Get(cfg, "output", Empty), "fps", DefaultFps)
       IN req' = [req EXCEPT ![r] =
            IF cfg = NoConfig
            THEN Raise(@, Err("SystemExit", "config_missing", "message", 0, "none"))
            ELSE IF ~VideoExists(req[r].tmpl, tv)
            THEN Raise([@ EXCEPT !.tvideo = tv],
                       Err("SystemExit", "video_missing", "message", 0, "none"))
            ELSE IF ~imgExists
            THEN Raise([@ EXCEPT !.tvideo = tv, !.fps = fps, !.img = "missing"],
                       Err("SystemExit", "image_missing", "message", 0, "none"))
            ELSE [@ EXCEPT !.tvideo = tv, !.fps = fps, !.img = "exists",
                           !.pc = "main_probe"]]
  /\ UNCHANGED files
  /\ UNCHANGED <<plan, editor>>

\* ffprobe_size of render.main returns.
FinishMainProbe(r) ==
  /\ req[r].pc = "main_probe" /\ req[r].running = {"main_probe"}
  /\ LET p == Probe(req[r].tmpl, req[r].tvideo)
         d == ffprobe_size(p)
     IN req' = [req EXCEPT ![r] =
          IF d.ok
          THEN [Finished(@, p.rc) EXCEPT !.canvas = d.dims, !.pc = "main_encode"]
          ELSE Raise(Finished(@, p.rc), d.err)]
  /\ UNCHANGED files
  /\ UNCHANGED <<plan, editor>>

\* The encode that run(cmd) started returns.  ffmpeg -y has written the
\* output path itself, so a failed encode may leave a partial file there.
FinishMainEncode(r) ==
  /\ req[r].pc = "main_encode" /\ req[r].running = {"main_encode"}
  /\ \E rc \in RetCodes, partial \in BOOLEAN :
       LET e == run(rc)
           out == IF req[r].mode = "app" THEN MainPath(req[r].ts) ELSE CliOutPath(r)
           wrote == rc = 0 \/ partial
           c == req[r].canvas
           next == GeneratorEntry(req[r], "outro_probe", "outro_write")
       IN /\ rc = 0 => ~partial
          /\ files' = IF wrote
                      THEN [files EXCEPT ![out] = Clip(r, c[1], c[2], req[r].fps, rc = 0)]
                      ELSE files
          /\ req' = [req EXCEPT ![r] =
               IF e # NoErr
               THEN [Raise(Finished(@, rc), e) EXCEPT
                       !.touched = IF wrote /\ req[r].mode = "app"
                                   THEN @ \cup {out} ELSE @]
               ELSE IF req[r].mode = "cli"
               THEN [Finished(@, rc) EXCEPT !.pc = "done", !.exit = 0]
               ELSE [Finished(@, rc) EXCEPT !.pc = next,
                       !.touched = @ \cup {out},
                       !.outroDim = IF next = "outro_write"
                                    THEN <<DefaultW, DefaultH>> ELSE <<0, 0>>]]
  /\ UNCHANGED <<plan, editor>>

\* get_video_dimensions of create_outro_video returns.
FinishOutroProbe(r) ==
  /\ req[r].pc = "outro_probe" /\ req[r].running = {"outro_probe"}
  /\ LET p == Probe(req[r].tmpl, DefaultTemplateVideo)
         d == outro_get_video_dimensions(p)
     IN req' = [req EXCEPT ![r] =
          IF d.ok
          THEN [Finished(@, p.rc) EXCEPT !.outroDim = d.dims, !.pc = "outro_write"]
          ELSE Raise(Finished(@, p.rc), d.err)]
  /\ UNCHANGED files
  /\ UNCHANGED <<plan, editor>>

\* clip.write_videofile of create_outro_video returns.
FinishOutroWrite(r) ==
  /\ req[r].pc = "outro_write" /\ req[r].running = {"outro_write"}
  /\ \E rc \in RetCodes, partial \in BOOLEAN :
       LET e == write_videofile("outro_write", rc)
           wrote == rc = 0 \/ partial
           d == req[r].outroDim
       IN /\ rc = 0 => ~partial
          /\ files' = IF wrote
                      THEN [files EXCEPT ![TempOutroPath] =
                              Clip(r, d[1], d[2], GeneratorFps, rc = 0)]
                      ELSE files
          /\ req' = [req EXCEPT ![r] =
               IF e = NoErr
               THEN [Finished(@, rc) EXCEPT !.pc = "outro_audio",
                                            !.touched = @ \cup {TempOutroPath}]
               ELSE [Raise(Finished(@, rc), e) EXCEPT
                       !.touched = IF wrote THEN @ \cup {TempOutroPath} ELSE @]]
  /\ UNCHANGED <<plan, editor>>

\* The audio ffmpeg of create_outro_video returns.
FinishOutroAudio(r) ==
  /\ req[r].pc = "outro_audio" /\ req[r].running = {"outro_audio"}
  /\ \E rc \in RetCodes, partial \in BOOLEAN :
       LET e == add_audio("outro_audio", rc)
           in == req[r].inbuf
           out == OutroPath(req[r].ts)
           wrote == in.by # 0 /\ (rc = 0 \/ partial)
       IN /\ rc = 0 => (in.by # 0 /\ in.whole /\ ~partial)
          /\ files' = [q \in Paths |->
               IF q = out /\ wrote THEN Clip(r, in.w, in.h, in.fps, rc = 0)
               ELSE IF q = TempOutroPath /\ e = NoErr THEN NoFile
               ELSE files[q]]
          /\ req' = [req EXCEPT ![r] =
               IF e = NoErr
               THEN [Finished(@, rc) EXCEPT !.pc = "concat_list", !.inbuf = NoFile,
                                            !.touched = @ \cup {out}]
               ELSE [Raise(Finished(@, rc), e) EXCEPT !.inbuf = NoFile,
                       !.touched = IF wrote THEN @ \cup {out} ELSE @]]
  /\ UNCHANGED <<plan, editor>>

\* concatenate_videos_with_outro writes output/concat_list.txt.
WriteConcatList(r) ==
  /\ req[r].pc = "concat_list"
  /\ files' = [files EXCEPT ![ConcatListPath] =
       ListFile(r, <<IntroPath(req[r].ts), MainPath(req[r].ts), OutroPath(req[r].ts)>>)]
  /\ req' = [req EXCEPT ![r] =
       [@ EXCEPT !.pc = "concat", !.touched = @ \cup {ConcatListPath}]]
  /\ UNCHANGED <<plan, editor>>

\* The concat ffmpeg is started: it opens the list file that is on disk now
\* and the clips that list names.
LaunchConcat(r) ==
  /\ req[r].pc = "concat"
  /\ req[r].running = {}
  /\ LET lst == files[ConcatListPath].list
     IN req' = [req EXCEPT ![r] =
          [@ EXCEPT !.running = {"concat"}, !.launched = Append(@, "concat"),
                    !.concatIn = [i \in 1 .. Len(lst) |-> files[lst[i]]],
                    !.touched = @ \cup {ConcatListPath}
                                  \cup {lst[i] : i \in 1 .. Len(lst)}]]
  /\ UNCHANGED files
  /\ UNCHANGED <<plan, editor>>

\* All the clips the concat process was handed are there and complete.
ConcatInputsOk(rq) ==
  /\ Len(rq.concatIn) = 3
  /\ \A i \in 1 .. 3 : rq.concatIn[i].by # 0 /\ rq.concatIn[i].whole

\* The concat ffmpeg returns: the list file is unlinked (missing_ok, whether
\* it is still there or not; unlinked records which); on a non-zero status
\* RuntimeError carries the captured stderr; on success render_video unlinks
\* its three clips and returns the final path.  ffmpeg -y writes the
\* destination itself, so a failed run that got as far as opening its first
\* input may leave a partial file at the destination.
FinishConcat(r) ==
  /\ req[r].pc = "concat" /\ req[r].running = {"concat"}
  /\ \E rc \in RetCodes, partial \in BOOLEAN :
       LET u == unlink(FileExists(ConcatListPath), TRUE)
           e == IF u # NoErr THEN u ELSE concat_result(rc)
           found == IF FileExists(ConcatListPath) THEN "removed" ELSE "missing"
           rq == req[r]
           out == FinalPath(rq.name, rq.ts)
           opened == Len(rq.concatIn) = 3 /\ rq.concatIn[1].by # 0 /\ rq.concatIn[1].whole
           wrote == rc = 0 \/ (opened /\ partial)
           own == {IntroPath(rq.ts), MainPath(rq.ts), OutroPath(rq.ts)}
           first == IF opened THEN rq.concatIn[1] ELSE NoFile
       IN /\ rc = 0 => (ConcatInputsOk(rq) /\ ~partial)
          /\ files' = [q \in Paths |->
               IF q = ConcatListPath THEN NoFile
               ELSE IF q = out /\ wrote THEN Clip(r, first.w, first.h, first.fps, rc = 0)
               ELSE IF q \in own /\ e = NoErr THEN NoFile
               ELSE files[q]]
          /\ req' = [req EXCEPT ![r] =
               IF e = NoErr
               THEN [Finished(@, rc) EXCEPT !.pc = "done", !.touched = @ \cup own,
                                            !.unlinked = found]
               ELSE [Raise(Finished(@, rc), e) EXCEPT !.unlinked = found]]
  /\ UNCHANGED <<plan, editor>>

Next ==
  \E r \in Requests :
    \/ Start(r)
    \/ Launch(r)
    \/ LaunchAudio(r)
    \/ LaunchConcat(r)
    \/ FinishIntroProbe(r)
    \/ FinishIntroWrite(r)
    \/ FinishIntroAudio(r)
    \/ FinishEnsure(r)
    \/ MainResolve(r)
    \/ FinishMainProbe(r)
    \/ FinishMainEncode(r)
    \/ FinishOutroProbe(r)
    \/ FinishOutroWrite(r)
    \/ FinishOutroAudio(r)
    \/ WriteConcatList(r)
    \/ FinishConcat(r)

Spec == Init /\ [][Next]_vars

(***************************************************************************)
(* render.main's planning.  A JSON number is the fraction n/d in lowest    *)
(* terms; a string the code transforms (chroma.hex, fit) is the sequence   *)
(* of its characters; an absent key is absent from the config's domain.    *)
(***************************************************************************)
MaxPh == 3

MaxImg == 5

Num(n) == [n |-> n, d |-> 1]

Frac(n, d) == [n |-> n, d |-> d]

\* int(v): truncation towards zero.
int(v) ==
  Num(IF v.n >= 0 THEN v.n \div v.d ELSE -((-v.n) \div v.d))

\* float(v) of a JSON number is that number.
float(v) == v

\* str(v) of a JSON string is that string.
str(v) == v

UpperCase ==
  <<"A", "B", "C", "D", "E", "F", "G", "H", "I", "J", "K", "L", "M",
    "N", "O", "P", "Q", "R", "S", "T", "U", "V", "W", "X", "Y", "Z">>

LowerCase ==
  <<"a", "b", "c", "d", "e", "f", "g", "h", "i", "j", "k", "l", "m",
    "n", "o", "p", "q", "r", "s", "t", "u", "v", "w", "x", "y", "z">>

LowerChar(c) ==
  IF \E i \in 1 .. 26 : UpperCase[i] = c
  THEN LowerCase[CHOOSE i \in 1 .. 26 : UpperCase[i] = c]
  ELSE c

\* str.lower()
lower(s) == [i \in 1 .. Len(s) |-> LowerChar(s[i])]

\* str.replace(old, new) for a one-character old.
RECURSIVE replace(_, _, _)
replace(s, old, new) ==
  IF s = <<>> THEN <<>>
  ELSE (IF Head(s) = old THEN new ELSE <<Head(s)>>) \o replace(Tail(s), old, new)

\* Python's None, and the truth value of an optional string.
None == "<None>"

Truthy(v) == v # None /\ v # ""

DefaultHex == <<"3", "e", "c", "9", "5", "4">>

\* The similarity default as it would be if blend's had been written there.
DefaultSimilarity_blend == Frac(3, 100)

DefaultSimilarity == Frac(23, 100)

DefaultBlend == Frac(3, 100)

DefaultFit == <<"c", "o", "v", "e", "r">>

DefaultCrf == 18

DefaultPreset == "medium"

Contain == <<"c", "o", "n", "t", "a", "i", "n">>

\* The explicit values a template.json holds, by kind of config:
\*   plain   values in the form the code works with
\*   raw     values as an operator may type them: "#00FF00", "Contain",
\*           fps 29.97, crf 18.5, similarity 1
\*   blank   the documented defaults written out, and an empty border_png
ConfigKinds == {"plain", "raw", "blank"}

Explicit(kind) ==
  CASE kind = "plain" ->
         [hex |-> <<"0", "0", "f", "f", "0", "0">>,
          similarity |-> Frac(3, 10), blend |-> Frac(1, 10),
          fit |-> Contain,
          fps |-> Num(24), crf |-> Num(23), preset |-> "fast",
          template_video |-> "alt.mp4", border_png |-> "border.png"]
    [] kind = "raw" ->
         [hex |-> <<"#", "0", "0", "F", "F", "0", "0">>,
          similarity |-> Num(1), blend |-> Frac(1, 10),
          fit |-> <<"C", "o", "n", "t", "a", "i", "n">>,
          fps |-> Frac(2997, 100), crf |-> Frac(37, 2), preset |-> "slow",
          template_video |-> "alt.mp4", border_png |-> "border.png"]
    [] OTHER ->
         [hex |-> DefaultHex,
          similarity |-> DefaultSimilarity, blend |-> DefaultBlend,
          fit |-> DefaultFit,
          fps |-> Num(DefaultFps), crf |-> Num(DefaultCrf), preset |-> DefaultPreset,
          template_video |-> DefaultTemplateVideo, border_png |-> ""]

TopKeys == {"template_video", "border_png", "chroma", "fit", "output"}

ChromaKeys == {"hex", "similarity", "blend"}

OutputKeys == {"fps", "crf", "preset"}

\* The parsed template.json that holds the keys tops (and placeholder), with
\* the keys cs in its chroma object and the keys os in its output object.
MakeConfig(kind, tops, cs, os, ph) ==
  [k \in tops \cup {"placeholder"} |->
     CASE k = "placeholder" -> ph
       [] k = "chroma"      -> [c \in cs |-> Explicit(kind)[c]]
       [] k = "output"      -> [o \in os |-> Explicit(kind)[o]]
       [] OTHER             -> Explicit(kind)[k]]

\* A JSON value in the place of a string is a string, written as the
\* sequence of its characters, or null, written as the sequence that holds
\* None and no character; only a string has the methods of str.
Null == <<None>>

IsStr(v) == \A i \in 1 .. Len(v) : v[i] # None

\* The values template.json may hold for "fit": the two modes in several
\* cases, misspelled and unknown modes, the empty string, a mode with a
\* trailing blank, and null.
FitValues ==
  {<<"c", "o", "v", "e", "r">>, <<"C", "O", "V", "E", "R">>,
   <<"c", "o", "n", "t", "a", "i", "n">>, <<"C", "O", "N", "T", "A", "I", "N">>,
   <<"c", "o", "n", "T", "a", "i", "n">>,
   <<"c", "o", "n", "t", "i", "a", "n">>, <<"s", "t", "r", "e", "t", "c", "h">>,
   <<"c", "o", "n", "t", "a", "i", "n", " ">>, <<>>, Null}

ScenarioPlaceholder == [x |-> Num(100), y |-> Num(200), w |-> Num(800), h |-> Num(800)]

\* The configs a run is given: every combination of present and absent
\* optional fields around the scenario's placeholder, small placeholders
\* with the fit mode alone, and every fit value with the scenario's
\* placeholder.
Configs ==
  {MakeConfig(kind, tops, cs, os, ScenarioPlaceholder) :
     kind \in ConfigKinds, tops \in SUBSET TopKeys,
     cs \in SUBSET ChromaKeys, os \in SUBSET OutputKeys}
  \cup
  {MakeConfig(kind, tops, {}, {}, [x |-> Num(0), y |-> Num(0), w |-> Num(a), h |-> Num(b)]) :
     kind \in ConfigKinds, tops \in SUBSET {"fit"},
     a \in 1 .. MaxPh, b \in 1 .. MaxPh}
  \cup
  {[k \in {"fit", "placeholder"} |->
      IF k = "fit" THEN f ELSE ScenarioPlaceholder] : f \in FitValues}

\* The sizes of the customer image: the scenarios' for the scenario's
\* placeholder, every small size for a small placeholder.
Images(w) ==
  IF w > MaxPh
  THEN {<<400, 600>>, <<1600, 400>>, <<800, 800>>, <<1601, 1>>}
  ELSE (1 .. MaxImg) \X (1 .. MaxImg)

Canvases == {<<1080, 1920>>, <<720, 1280>>}

CustomerImage == "photo.jpg"

OutPath == "out.mp4"

\* border_path as it would be if the file were not looked up on disk.
border_path_unchecked(cfg, onDisk) ==
  LET border_png == Get(cfg, "border_png", None)
  IN IF Truthy(border_png) THEN border_png ELSE None

\* render.main, lines 56-60: the border file that is used, if any.
border_path(cfg, onDisk) ==
  LET border_png == Get(cfg, "border_png", None)
  IN IF Truthy(border_png) /\ onDisk THEN border_png ELSE None

\* render.main, lines 58-59: the warning about a configured border that is
\* not on disk is printed.
border_warning(cfg, onDisk) ==
  LET border_png == Get(cfg, "border_png", None)
  IN Truthy(border_png) /\ ~onDisk

\* render.main, lines 52-74: the values resolved from the config.
resolve(cfg, onDisk) ==
  LET ph == cfg["placeholder"]
      chroma == Get(cfg, "chroma", Empty)
      out_cfg == Get(cfg, "output", Empty)
  IN [template_video |-> Get(cfg, "template_video", DefaultTemplateVideo),
      border_path |-> border_path(cfg, onDisk),
      x |-> int(ph.x), y |-> int(ph.y), w |-> int(ph.w), h |-> int(ph.h),
      chroma_hex |-> replace(lower(Get(chroma, "hex", DefaultHex)), "#", <<>>),
      similarity |-> float(Get(chroma, "similarity", DefaultSimilarity)),
      blend |-> float(Get(chroma, "blend", DefaultBlend)),
      fit |-> lower(Get(cfg, "fit", DefaultFit)),
      fps |-> int(Get(out_cfg, "fps", Num(DefaultFps))),
      crf |-> int(Get(out_cfg, "crf", Num(DefaultCrf))),
      preset |-> str(Get(out_cfg, "preset", DefaultPreset))]

\* One filter of a chain, and one chain of the graph: its input labels, its
\* filters in order and its output label.
Filter(name, args) == [name |-> name, args |-> args]

Chain(ins, filters, out) == [ins |-> ins, filters |-> filters, out |-> out]

\* render.main, lines 88-92.  A number formatted into the text is the number
\* ffmpeg reads back from it.
img_chain(fit, w, h) ==
  IF fit = Contain
  THEN <<Filter("scale", <<w, h, "decrease">>),
         Filter("pad", <<w, h, "(ow-iw)/2", "(oh-ih)/2">>)>>
  ELSE <<Filter("scale", <<w, h, "increase">>),
         Filter("crop", <<w, h>>)>>

\* colorkey as it would be with similarity and blend in each other's place.
colorkey_swapped(rs) ==
  Filter("colorkey", <<<<"0", "x">> \o rs.chroma_hex, rs.blend, rs.similarity>>)

\* render.main, lines 103 and 122: colorkey=0x{chroma_hex}:{similarity}:{blend}
colorkey(rs) ==
  Filter("colorkey", <<<<"0", "x">> \o rs.chroma_hex, rs.similarity, rs.blend>>)

\* filter_complex as it would be with the photo overlaid on the keyed
\* template instead of under it.
filter_complex_photo_over(rs, canvas) ==
  <<Chain(<<"1:v">>, img_chain(rs.fit, rs.w.n, rs.h.n), "photo"),
    Chain(<<>>, <<Filter("color", <<"black", canvas[1], canvas[2]>>)>>, "base"),
    Chain(<<"0:v">>,
          <<Filter("format", <<"rgba">>),
            colorkey(rs)>>,
          "fg"),
    Chain(<<"base", "fg">>, <<Filter("overlay", <<0, 0>>)>>, "bg"),
    Chain(<<"bg", "photo">>,
          <<Filter("overlay", <<rs.x.n, rs.y.n>>), Filter("format", <<"yuv420p">>)>>,
          "vout")>>

\* render.main, lines 99-106 and 118-124: the graph with and without border.
filter_complex(rs, canvas) ==
  IF rs.border_path # None
  THEN <<Chain(<<"1:v">>, img_chain(rs.fit, rs.w.n, rs.h.n), "photo"),
         Chain(<<>>, <<Filter("color", <<"black", canvas[1], canvas[2]>>)>>, "base"),
         Chain(<<"base", "photo">>, <<Filter("overlay", <<rs.x.n, rs.y.n>>)>>, "bg"),
         Chain(<<"0:v">>,
               <<Filter("format", <<"rgba">>),
                 colorkey(rs)>>,
               "fg"),
         Chain(<<"bg", "fg">>, <<Filter("overlay", <<0, 0>>)>>, "v1"),
         Chain(<<"v1", "2:v">>,
               <<Filter("overlay", <<0, 0>>), Filter("format", <<"yuv420p">>)>>,
               "vout")>>
  ELSE <<Chain(<<"1:v">>, img_chain(rs.fit, rs.w.n, rs.h.n), "photo"),
         Chain(<<>>, <<Filter("color", <<"black", canvas[1], canvas[2]>>)>>, "base"),
         Chain(<<"base", "photo">>, <<Filter("overlay", <<rs.x.n, rs.y.n>>)>>, "bg"),
         Chain(<<"0:v">>,
               <<Filter("format", <<"rgba">>),
                 colorkey(rs)>>,
               "fg"),
         Chain(<<"bg", "fg">>,
               <<Filter("overlay", <<0, 0>>), Filter("format", <<"yuv420p">>)>>,
               "vout")>>

Input(file, loop) == [file |-> file, loop |-> loop]

\* render.main, lines 107-116 and 125-133: the ffmpeg command.
cmd(rs, canvas) ==
  [inputs |-> IF rs.border_path # None
              THEN <<Input(rs.template_video, FALSE), Input(CustomerImage, TRUE),
                     Input(rs.border_path, FALSE)>>
              ELSE <<Input(rs.template_video, FALSE), Input(CustomerImage, TRUE)>>,
   filter_complex |-> filter_complex(rs, canvas),
   map |-> <<"[vout]", "0:a?">>, shortest |-> TRUE,
   r |-> rs.fps.n, cv |-> "libx264", crf |-> rs.crf.n, preset |-> rs.preset,
   ca |-> "aac", out |-> OutPath]

(***************************************************************************)
(* What ffmpeg makes of the command: the layers the graph composes, and    *)
(* the geometry of the photo chain, as the filters' manual describes them. *)
(***************************************************************************)
Layer(src, keyed, at, size) == [src |-> src, keyed |-> keyed, at |-> at, size |-> size]

InputLabels == <<"0:v", "1:v", "2:v">>

\* Behind the label of each -i input: that file as the only layer.
InputStacks(inputs) ==
  [l \in {InputLabels[i] : i \in 1 .. Len(inputs)} |->
     <<Layer(inputs[CHOOSE i \in 1 .. Len(inputs) : InputLabels[i] = l].file,
             FALSE, <<0, 0>>, <<0, 0>>)>>]

\* One filter applied to the stacks (back to front) of its inputs: overlay
\* puts its second input over its first at the offset, colorkey keys what it
\* is given, color is a source, crop and pad fix the size.
ApplyFilter(f, stacks) ==
  CASE f.name = "overlay" ->
         <<stacks[1] \o
           [i \in 1 .. Len(stacks[2]) |->
              [stacks[2][i] EXCEPT !.at = <<@[1] + f.args[1], @[2] + f.args[2]>>]]>>
    [] f.name = "colorkey" ->
         <<[i \in 1 .. Len(stacks[1]) |-> [stacks[1][i] EXCEPT !.keyed = TRUE]]>>
    [] f.name = "color" ->
         <<<<Layer(f.args[1], FALSE, <<0, 0>>, <<f.args[2], f.args[3]>>)>>>>
    [] f.name \in {"crop", "pad"} ->
         <<[i \in 1 .. Len(stacks[1]) |->
              [stacks[1][i] EXCEPT !.size = <<f.args[1], f.args[2]>>]]>>
    [] OTHER -> stacks

RECURSIVE ApplyFilters(_, _)
ApplyFilters(filters, stacks) ==
  IF Len(filters) = 0 THEN stacks
  ELSE ApplyFilters(Tail(filters), ApplyFilter(Head(filters), stacks))

RECURSIVE Compose(_, _)
Compose(graph, env) ==
  IF Len(graph) = 0 THEN env
  ELSE LET c == Head(graph)
           ins == [i \in 1 .. Len(c.ins) |-> env[c.ins[i]]]
       IN Compose(Tail(graph), (c.out :> ApplyFilters(c.filters, ins)[1]) @@ env)

\* The layers of the stream the command maps to its output, back to front.
Composite(c) == Compose(c.filter_complex, InputStacks(c.inputs))["vout"]

Min(a, b) == IF a < b THEN a ELSE b

Max(a, b) == IF a > b THEN a ELSE b

Abs(a) == IF a < 0 THEN -a ELSE a

\* a * b / c rounded to the nearest integer.
av_rescale(a, b, c) == (2 * a * b + c) \div (2 * c)

\* scale=w:h:force_original_aspect_ratio=foar applied to an iw by ih image.
ffmpeg_scale(iw, ih, w, h, foar) ==
  LET tmp_w == av_rescale(h, iw, ih)
      tmp_h == av_rescale(w, ih, iw)
  IN IF foar = "decrease"
     THEN <<Min(tmp_w, w), Min(tmp_h, h)>>
     ELSE <<Max(tmp_w, w), Max(tmp_h, h)>>

\* crop and pad round sizes and offsets down to the chroma subsampling
\* (2^sub) of the frame format.
RoundToSub(v, sub) == v - (v % (2 ^ sub))

NoPhoto ==
  [ok |-> FALSE, scaled |-> <<0, 0>>, size |-> <<0, 0>>,
   left |-> 0, right |-> 0, top |-> 0, bottom |-> 0]

\* The photo layer the chain [1:v]scale,crop or [1:v]scale,pad yields from an
\* iw by ih image: the scaled size, the layer's size, and what is cut off
\* (crop) or added (pad) on each side.  A scaled size with a zero dimension,
\* a crop larger than its input and a pad smaller than its input fail.
FitPhoto(chain, iw, ih, sub) ==
  LET s == ffmpeg_scale(iw, ih, chain[1].args[1], chain[1].args[2], chain[1].args[3])
      w == RoundToSub(chain[2].args[1], sub)
      h == RoundToSub(chain[2].args[2], sub)
  IN IF s[1] < 1 \/ s[2] < 1 \/ w < 1 \/ h < 1 THEN NoPhoto
     ELSE IF chain[2].name = "crop"
     THEN IF w > s[1] \/ h > s[2] THEN NoPhoto
          ELSE LET x == RoundToSub((s[1] - w) \div 2, sub)
                   y == RoundToSub((s[2] - h) \div 2, sub)
               IN [ok |-> TRUE, scaled |-> s, size |-> <<w, h>>,
                   left |-> x, right |-> s[1] - w - x,
                   top |-> y, bottom |-> s[2] - h - y]
     ELSE LET x == RoundToSub((chain[2].args[1] - s[1]) \div 2, sub)
              y == RoundToSub((chain[2].args[2] - s[2]) \div 2, sub)
          IN IF x + s[1] > w \/ y + s[2] > h THEN NoPhoto
             ELSE [ok |-> TRUE, scaled |-> s, size |-> <<w, h>>,
                   left |-> x, right |-> w - s[1] - x,
                   top |-> y, bottom |-> h - s[2] - y]

(***************************************************************************)
(* One call of render.main, from the parsed config to the encode.          *)
(***************************************************************************)
PlanInit ==
  /\ req = [r \in Requests |-> IdleRequest]
  /\ files = [p \in Paths |-> NoFile]
  /\ plan = NoPlan
  /\ editor = NoEditor

\* render.main, line 50: template.json is parsed.
ReadConfig ==
  /\ plan.pc = "start"
  /\ \E cfg \in Configs : plan' = [pc |-> "config", cfg |-> cfg]
  /\ UNCHANGED <<req, files, editor>>

\* render.main, lines 52-74: the config's values are resolved; the border
\* file is looked up.  A fit value without a lower method ends the call
\* with AttributeError at line 70.
ResolveConfig ==
  /\ plan.pc = "config"
  /\ \E onDisk \in BOOLEAN :
       plan' = IF IsStr(Get(plan.cfg, "fit", DefaultFit))
               THEN [pc |-> "resolved", cfg |-> plan.cfg, onDisk |-> onDisk,
                     rs |-> resolve(plan.cfg, onDisk),
                     warned |-> border_warning(plan.cfg, onDisk)]
               ELSE [pc |-> "raised", cfg |-> plan.cfg, onDisk |-> onDisk,
                     warned |-> border_warning(plan.cfg, onDisk),
                     err |-> Err("AttributeError", "main", "message", 0, "none")]
  /\ UNCHANGED <<req, files, editor>>

\* render.main, lines 83-133: the canvas is probed, the graph and the
\* command are built.
BuildCommand ==
  /\ plan.pc = "resolved"
  /\ \E canvas \in Canvases :
       plan' = [pc |-> "built", cfg |-> plan.cfg, onDisk |-> plan.onDisk,
                rs |-> plan.rs, warned |-> plan.warned, canvas |-> canvas,
                cmd |-> cmd(plan.rs, canvas)]
  /\ UNCHANGED <<req, files, editor>>

\* render.main, line 135: ffmpeg runs the command on a customer image of
\* some size, in a frame format of some chroma subsampling.
RunCommand ==
  /\ plan.pc = "built"
  /\ \E img \in Images(plan.rs.w.n), sub \in {0, 1}, rc \in RetCodes :
       LET photo == FitPhoto(plan.cmd.filter_complex[1].filters, img[1], img[2], sub)
       IN /\ ~photo.ok => rc # 0
          /\ plan' = [pc |-> IF run(rc) = NoErr THEN "done" ELSE "failed",
                      cfg |-> plan.cfg, onDisk |-> plan.onDisk,
                      rs |-> plan.rs, warned |-> plan.warned,
                      canvas |-> plan.canvas, cmd |-> plan.cmd,
                      image |-> img, sub |-> sub, photo |-> photo, err |-> run(rc)]
  /\ UNCHANGED <<req, files, editor>>

PlanNext == ReadConfig \/ ResolveConfig \/ BuildCommand \/ RunCommand

PlanSpec == PlanInit /\ [][PlanNext]_vars

(***************************************************************************)
(* The raw JSON editor of app.py.  A text is the sequence of its tokens:   *)
(* punctuation, a run of whitespace, a number literal, a string literal.   *)
(***************************************************************************)
MaxText == 5

Punct(c) == <<"punct", c>>

Ws == <<"ws", " ">>

NumTok(lit) == <<"num", lit>>

StrTok(chars) == <<"str", chars>>

\* What the operator may type.
Tokens ==
  {Punct("{"), Punct("}"), Punct(":"), Punct(","), Ws, NumTok("1"), StrTok("fit")}

Texts == UNION {[1 .. n -> Tokens] : n \in 0 .. MaxText}

\* The Python values json.loads returns: int, str, dict.
JNum(lit) == [t |-> "num", lit |-> lit]

JStr(chars) == [t |-> "str", chars |-> chars]

JObj(m) == [t |-> "obj", m |-> m]

\* The outcome of a scan: JSONDecodeError, or a value and the index after it.
DecodeError == [ok |-> FALSE]

Scanned(v, next) == [ok |-> TRUE, val |-> v, next |-> next]

RECURSIVE skip_ws(_, _)
skip_ws(ts, i) ==
  IF i <= Len(ts) /\ ts[i] = Ws THEN skip_ws(ts, i + 1) ELSE i

RECURSIVE scan_value(_, _)
RECURSIVE scan_pairs(_, _, _)

\* json.decoder.JSONObject after the opening brace.
scan_object(ts, i) ==
  LET j == skip_ws(ts, i)
  IN IF j > Len(ts) THEN DecodeError
     ELSE IF ts[j] = Punct("}") THEN Scanned(JObj(<<>>), j + 1)
     ELSE scan_pairs(ts, j, <<>>)

\* json.decoder.JSONObject: the pairs from index j on; m holds the pairs read
\* so far, and a key read again replaces its value.
scan_pairs(ts, j, m) ==
  IF j > Len(ts) \/ ts[j][1] # "str" THEN DecodeError
  ELSE LET c == skip_ws(ts, j + 1)
       IN IF c > Len(ts) \/ ts[c] # Punct(":") THEN DecodeError
          ELSE LET r == scan_value(ts, skip_ws(ts, c + 1))
               IN IF ~r.ok THEN DecodeError
                  ELSE LET e == skip_ws(ts, r.next)
                           m2 == (ts[j][2] :> r.val) @@ m
                       IN IF e > Len(ts) THEN DecodeError
                          ELSE IF ts[e] = Punct("}") THEN Scanned(JObj(m2), e + 1)
                          ELSE IF ts[e] = Punct(",")
                               THEN scan_pairs(ts, skip_ws(ts, e + 1), m2)
                          ELSE DecodeError

\* json.scanner's scan_once.
scan_value(ts, i) ==
  IF i > Len(ts) THEN DecodeError
  ELSE IF ts[i][1] = "num" THEN Scanned(JNum(ts[i][2]), i + 1)
  ELSE IF ts[i][1] = "str" THEN Scanned(JStr(ts[i][2]), i + 1)
  ELSE IF ts[i] = Punct("{") THEN scan_object(ts, i + 1)
  ELSE DecodeError

\* json.loads: one value between optional whitespace, and nothing after it.
loads(ts) ==
  LET r == scan_value(ts, skip_ws(ts, 1))
  IN IF ~r.ok THEN DecodeError
     ELSE IF skip_ws(ts, r.next) <= Len(ts) THEN DecodeError
     ELSE r

RECURSIVE dumps(_)
RECURSIVE dump_items(_, _)

\* The items of a dict, one to a line.
dump_items(m, ks) ==
  LET k == CHOOSE k \in ks : TRUE
  IN <<StrTok(k), Punct(":"), Ws>> \o dumps(m[k]) \o
     (IF ks = {k} THEN <<>> ELSE <<Punct(","), Ws>> \o dump_items(m, ks \ {k}))

\* json.dump(config, f, indent=2)
dumps(v) ==
  CASE v.t = "num" -> <<NumTok(v.lit)>>
    [] v.t = "str" -> <<StrTok(v.chars)>>
    [] OTHER ->
         IF DOMAIN v.m = {} THEN <<Punct("{"), Punct("}")>>
         ELSE <<Punct("{"), Ws>> \o dump_items(v.m, DOMAIN v.m) \o <<Ws, Punct("}")>>

\* The truth value of a config: an empty dict is false, and so would be 0
\* and the empty string.
TruthyConfig(v) ==
  CASE v.t = "obj" -> DOMAIN v.m # {}
    [] v.t = "num" -> v.lit # "0"
    [] OTHER -> v.chars # ""

\* The pages before the raw editor call config.get: they are rendered for a
\* dict only.
CanEdit(v) == TruthyConfig(v) /\ v.t = "obj"

\* The config of the selected template as the session loaded it.
TemplateConfig == JObj("fit" :> JStr("cover"))

\* No Save has been pressed in the page as it is shown.
NoRun == [shown |-> "none"]

\* app.save_template_config: what template.json holds afterwards.
save_template_config(config) == dumps(config)

\* The Save handler as it would be if the text were written to the file
\* before it is parsed.
save_json_write_first(ed, edited_json) ==
  LET new_config == loads(edited_json)
  IN IF ~new_config.ok
     THEN [ed EXCEPT !.persisted = edited_json,
                     !.run = [shown |-> "error", text |-> edited_json]]
     ELSE [open |-> TRUE,
           persisted |-> save_template_config(new_config.val),
           config |-> new_config.val,
           run |-> [shown |-> "success", text |-> edited_json]]

\* app.py, lines 371-377: Save JSON pressed with the text edited_json.
save_json(ed, edited_json) ==
  LET new_config == loads(edited_json)
  IN IF ~new_config.ok
     THEN [ed EXCEPT !.run = [shown |-> "error", text |-> edited_json]]
     ELSE [open |-> TRUE,
           persisted |-> save_template_config(new_config.val),
           config |-> new_config.val,
           run |-> [shown |-> "success", text |-> edited_json]]

EditorInit ==
  /\ req = [r \in Requests |-> IdleRequest]
  /\ files = [p \in Paths |-> NoFile]
  /\ plan = NoPlan
  /\ editor = [open |-> TRUE,
               persisted |-> save_template_config(TemplateConfig),
               config |-> TemplateConfig,
               run |-> NoRun]

\* The operator presses Save JSON with some text in the text area.
SaveJson ==
  /\ editor.run = NoRun
  /\ CanEdit(editor.config)
  /\ \E edited_json \in Texts : editor' = save_json(editor, edited_json)
  /\ UNCHANGED <<req, files, plan>>

\* The operator presses Reset to Current: the script runs again and the
\* messages of the run before are gone.
ResetToCurrent ==
  /\ editor.run # NoRun
  /\ CanEdit(editor.config)
  /\ editor' = [editor EXCEPT !.run = NoRun]
  /\ UNCHANGED <<req, files, plan>>

EditorNext == SaveJson \/ ResetToCurrent

EditorSpec == EditorInit /\ [][EditorNext]_vars

(***************************************************************************)
(* Properties.                                                             *)
(***************************************************************************)
AppRequests == {r \in Requests : req[r].mode = "app"}

Ended(r) == req[r].pc \in {"done", "failed"}

FailedAt(r, site) == req[r].pc = "failed" /\ req[r].err.site = site

\* The process of step s that request r ran has returned, with status rc.
Returned(r, s, rc) ==
  \E i \in 1 .. Len(req[r].rcs) : req[r].launched[i] = s /\ req[r].rcs[i] = rc

\* The processes of a render proper: everything request r has started except
\* ensure_ffmpeg's two version checks.
RenderProcesses(r) ==
  {i \in 1 .. Len(req[r].launched) :
     req[r].launched[i] \notin {"ensure_ffmpeg", "ensure_ffprobe"}}

\* C1: when the customer image does not exist, the render fails with the
\* image-not-found error before any external process has been started.  The
\* two version checks of the toolchain are left out of the count, which only
\* weakens the statement: no probe, generation or encode process has run.
C1_NoProcessBeforeImageError ==
  \A r \in Requests : FailedAt(r, "image_missing") => RenderProcesses(r) = {}

\* C2: a request that ends with the missing-config or the missing-template-
\* video error has run no probe, intro-generation, encode or concatenation
\* process.
C2_NoProcessBeforeResourceError ==
  \A r \in Requests :
    (FailedAt(r, "config_missing") \/ FailedAt(r, "video_missing"))
      => RenderProcesses(r) = {}

\* The intermediate files of a render_video request.
Intermediates(r) ==
  {IntroPath(req[r].ts), MainPath(req[r].ts), OutroPath(req[r].ts),
   TempIntroPath, TempOutroPath}

\* C3: after render_video has returned or raised, none of the intermediate
\* files the request wrote is left on disk, on the success path and on every
\* failure path.
C3_NoIntermediateLeft ==
  \A r \in AppRequests :
    Ended(r) => \A p \in Intermediates(r) : files[p].by # r

\* C4: when a render_video request has failed, no file written by that
\* request is at its final destination path.
C4_NoDestinationOnFailure ==
  \A r \in AppRequests :
    req[r].pc = "failed" => files[FinalPath(req[r].name, req[r].ts)].by # r

\* C5: two concurrent render_video requests with different output names
\* create, read and delete disjoint sets of temporary files.
C5_TempFilesDisjoint ==
  \A r \in AppRequests : \A s \in AppRequests :
    (r # s /\ req[r].name # req[s].name)
      => req[r].touched \cap req[s].touched = {}

\* The stage a process step belongs to: intro 1, main 2, outro 3, concat 4.
StageOf(s) ==
  CASE s \in {"intro_probe", "intro_write", "intro_audio"} -> 1
    [] s \in {"ensure_ffmpeg", "ensure_ffprobe", "main_probe", "main_encode"} -> 2
    [] s \in {"outro_probe", "outro_write", "outro_audio"} -> 3
    [] OTHER -> 4

\* The step whose successful return completes a stage.
LastStepOf(stage) ==
  CASE stage = 1 -> "intro_audio" [] stage = 2 -> "main_encode" [] OTHER -> "outro_audio"

\* The processes of request r were started stage by stage, each stage after
\* the one before had returned successfully.
StagesInOrder(r) ==
  \A i \in 1 .. Len(req[r].launched) :
    LET st == StageOf(req[r].launched[i])
    IN /\ \A j \in 1 .. i : StageOf(req[r].launched[j]) <= st
       /\ st > 1 => \E j \in 1 .. (i - 1) :
                      /\ j <= Len(req[r].rcs)
                      /\ req[r].launched[j] = LastStepOf(st - 1)
                      /\ req[r].rcs[j] = 0

\* Request r starts its concat process in this step.
StartsConcat(r) ==
  req[r].pc = "concat" /\ req[r].running = {} /\ req'[r].running = {"concat"}

\* C6: within one render_video request the stages run in the order intro,
\* main, outro, concatenation, each after the one before has completed
\* successfully; at most one external process of the request runs at a time;
\* and the concatenation starts only when the request's three clips exist.
C6_StagesSequential ==
  /\ [](\A r \in AppRequests :
          StagesInOrder(r) /\ Cardinality(req[r].running) <= 1)
  /\ [][\A r \in Requests :
          StartsConcat(r) =>
            \A p \in {IntroPath(req[r].ts), MainPath(req[r].ts), OutroPath(req[r].ts)} :
              FileExists(p)]_vars

\* The part of C6 that is about one request's own control flow.
C6_OrderAndOneProcess ==
  \A r \in AppRequests : StagesInOrder(r) /\ Cardinality(req[r].running) <= 1

C8_EveryFailureHandled ==
  \A r \in AppRequests :
    req[r].pc = "failed" => req[r].err.wrapped /\ req[r].handled

\* The kinds of failure that do reach the button's handler.
C8_ExceptionsHandled ==
  \A r \in AppRequests :
    req[r].pc = "failed" =>
      (req[r].handled <=> IsException(req[r].err.cls))

\* C9: in every request that reaches the concatenation the intro and outro
\* clips were generated with the canvas width and height and the frame rate
\* of the main clip.
C9_ClipsShareParameters ==
  \A r \in AppRequests :
    req[r].pc \in {"concat_list", "concat", "done"} =>
      /\ req[r].introDim = req[r].canvas
      /\ req[r].outroDim = req[r].canvas
      /\ GeneratorFps = req[r].fps

\* The probe of file f in the folder of request r finds no video stream.
NoStreams(r, f) == Probe(req[r].tmpl, f).out = "nostreams"

\* C10: when the probe of the template video finds no video stream, render.main
\* fails and starts no encode, while intro and outro generation fall back to
\* the 1080 by 1920 canvas and go on.
C10_ProbeWithoutStreams ==
  \A r \in Requests : \A rc \in RetCodes :
    /\ Returned(r, "main_probe", rc) /\ NoStreams(r, req[r].tvideo)
         => /\ FailedAt(r, "ffprobe_size")
            /\ \A i \in 1 .. Len(req[r].launched) : req[r].launched[i] # "main_encode"
    /\ Returned(r, "intro_probe", rc) /\ NoStreams(r, DefaultTemplateVideo)
         => /\ req[r].introDim = <<1080, 1920>>
            /\ ~FailedAt(r, "get_video_dimensions")
            /\ req[r].pc # "intro_probe"
    /\ Returned(r, "outro_probe", rc) /\ NoStreams(r, DefaultTemplateVideo)
         => /\ req[r].outroDim = <<1080, 1920>>
            /\ ~FailedAt(r, "get_video_dimensions")
            /\ req[r].pc # "outro_probe"

\* One request's main render has failed on a template without a video stream
\* after its intro fell back; another's outro fell back and it went on to
\* the end.
C10_FallbackAndFailureSeen ==
  \E r \in Requests : \E s \in Requests :
    /\ req[r].tmpl = "nostream" /\ FailedAt(r, "ffprobe_size")
    /\ req[r].introDim = <<1080, 1920>> /\ Returned(r, "intro_audio", 0)
    /\ req[s].tmpl = "alt" /\ req[s].pc = "done"
    /\ req[s].outroDim = <<1080, 1920>> /\ Returned(s, "outro_audio", 0)

(***************************************************************************)
(* Properties of render.main's plan, under PlanSpec.                       *)
(***************************************************************************)
Built == plan.pc \in {"built", "done", "failed"}

\* template.json names a border file.
BorderConfigured(cfg) == "border_png" \in DOMAIN cfg /\ cfg["border_png"] # ""

\* The config without its border_png key.
WithoutBorder(cfg) == [k \in DOMAIN cfg \ {"border_png"} |-> cfg[k]]

\* The chains of the graph that read the third input.
BorderSteps(c) ==
  {i \in 1 .. Len(c.filter_complex) :
     \E j \in 1 .. Len(c.filter_complex[i].ins) : c.filter_complex[i].ins[j] = "2:v"}

\* The command has the border as its third input and overlays it at 0:0 in
\* the graph's final chain.
HasBorderStep(c) ==
  /\ Len(c.inputs) = 3
  /\ BorderSteps(c) = {Len(c.filter_complex)}
  /\ LET last == c.filter_complex[Len(c.filter_complex)]
     IN /\ last.ins[2] = "2:v" /\ last.out = "vout"
        /\ last.filters[1] = Filter("overlay", <<0, 0>>)

\* C11: the command has a border step if and only if border_png is configured
\* and the file is on disk; without border_png there is none; with border_png
\* configured and the file missing the warning is printed and the command is
\* the one built for the same config without border_png (two inputs, no chain
\* reading a third).
C11_BorderIffConfiguredAndOnDisk ==
  Built =>
    /\ HasBorderStep(plan.cmd) <=> (BorderConfigured(plan.cfg) /\ plan.onDisk)
    /\ ~BorderConfigured(plan.cfg) =>
         /\ Len(plan.cmd.inputs) = 2 /\ BorderSteps(plan.cmd) = {}
         /\ ~plan.warned
    /\ (BorderConfigured(plan.cfg) /\ ~plan.onDisk) =>
         /\ plan.warned
         /\ Len(plan.cmd.inputs) = 2 /\ BorderSteps(plan.cmd) = {}
         /\ plan.cmd = cmd(resolve(WithoutBorder(plan.cfg), FALSE), plan.canvas)
         /\ plan.cmd = cmd(resolve(WithoutBorder(plan.cfg), TRUE), plan.canvas)

\* A render with a configured border that is not on disk has run to the end,
\* warned and without border.
C11_MissingBorderRendered ==
  /\ plan.pc = "done"
  /\ BorderConfigured(plan.cfg) /\ ~plan.onDisk
  /\ plan.warned /\ Len(plan.cmd.inputs) = 2

\* The chains of the graph that hold a colorkey filter.
KeyingSteps(c) ==
  {i \in 1 .. Len(c.filter_complex) :
     \E j \in 1 .. Len(c.filter_complex[i].filters) :
       c.filter_complex[i].filters[j].name = "colorkey"}

\* The template video the config names.
ConfiguredVideo(cfg) ==
  IF "template_video" \in DOMAIN cfg THEN cfg["template_video"] ELSE "template.mp4"

\* C12: in every command render.main builds, the output stream is, back to
\* front, the black base of the canvas's size, the photo at the placeholder's
\* (x, y), the colour-keyed template video at (0, 0) and, when there is a
\* border, the border at (0, 0) on top; the one colorkey filter is in a chain
\* that reads input 0 alone, and input 0 is the template video.
C12_LayerOrder ==
  Built =>
    LET c == plan.cmd
        ph == plan.cfg["placeholder"]
        base == Layer("black", FALSE, <<0, 0>>, plan.canvas)
        photo == Layer(CustomerImage, FALSE, <<ph.x.n, ph.y.n>>, <<ph.w.n, ph.h.n>>)
        keyed == Layer(ConfiguredVideo(plan.cfg), TRUE, <<0, 0>>, <<0, 0>>)
    IN /\ Len(c.inputs) = 2 => Composite(c) = <<base, photo, keyed>>
       /\ Len(c.inputs) = 3 =>
            Composite(c) =
              <<base, photo, keyed,
                Layer(plan.cfg["border_png"], FALSE, <<0, 0>>, <<0, 0>>)>>
       /\ Len(c.inputs) \in {2, 3}
       /\ c.inputs[1].file = ConfiguredVideo(plan.cfg)
       /\ c.inputs[2].file = CustomerImage
       /\ Cardinality(KeyingSteps(c)) = 1
       /\ \A i \in KeyingSteps(c) : c.filter_complex[i].ins = <<"0:v">>

\* A render with border has run to the end: four layers, the border on top.
C12_BorderOnTopRendered ==
  /\ plan.pc = "done"
  /\ Len(plan.cmd.inputs) = 3
  /\ Len(Composite(plan.cmd)) = 4
  /\ Composite(plan.cmd)[4].src = "border.png"
  /\ Composite(plan.cmd)[3].keyed

Resolved == plan.pc \in {"resolved", "built", "done", "failed"}

\* The config's chroma / output object holds key k.
ChromaHas(cfg, k) == "chroma" \in DOMAIN cfg /\ k \in DOMAIN cfg["chroma"]

OutputHas(cfg, k) == "output" \in DOMAIN cfg /\ k \in DOMAIN cfg["output"]

\* C13: every field that is absent from the config resolves to its documented
\* default (chroma.hex 3ec954, similarity 0.23, blend 0.03, fit cover, fps 30,
\* crf 18, preset medium, template_video template.mp4, no border), whichever
\* other fields are present.
C13_AbsentFieldsDefault ==
  Resolved =>
    LET cfg == plan.cfg
        rs == plan.rs
    IN /\ ~ChromaHas(cfg, "hex") => rs.chroma_hex = <<"3", "e", "c", "9", "5", "4">>
       /\ ~ChromaHas(cfg, "similarity") => rs.similarity = Frac(23, 100)
       /\ ~ChromaHas(cfg, "blend") => rs.blend = Frac(3, 100)
       /\ "fit" \notin DOMAIN cfg => rs.fit = <<"c", "o", "v", "e", "r">>
       /\ ~OutputHas(cfg, "fps") => rs.fps = Num(30)
       /\ ~OutputHas(cfg, "crf") => rs.crf = Num(18)
       /\ ~OutputHas(cfg, "preset") => rs.preset = "medium"
       /\ "template_video" \notin DOMAIN cfg => rs.template_video = "template.mp4"
       /\ "border_png" \notin DOMAIN cfg => rs.border_path = None

\* A config with a chroma object that holds only hex and an output object
\* that holds only preset has been resolved and rendered: the absent
\* neighbours took their defaults beside the explicit values.
C13_PartialConfigRendered ==
  /\ plan.pc = "done"
  /\ DOMAIN plan.cfg = {"placeholder", "chroma", "output"}
  /\ DOMAIN plan.cfg["chroma"] = {"hex"} /\ DOMAIN plan.cfg["output"] = {"preset"}
  /\ plan.rs.chroma_hex = <<"0", "0", "f", "f", "0", "0">> /\ plan.rs.preset = "fast"
  /\ plan.rs.similarity = Frac(23, 100) /\ plan.rs.fps = Num(30)

\* Every optional field of the config is present.
AllPresent(cfg) ==
  /\ DOMAIN cfg = TopKeys \cup {"placeholder"}
  /\ DOMAIN cfg["chroma"] = ChromaKeys
  /\ DOMAIN cfg["output"] = OutputKeys

\* C14 as stated: resolving a config in which every field is present yields,
\* for every field, exactly the stored value.
C14_ExplicitValuesIdentical ==
  (Resolved /\ AllPresent(plan.cfg)) =>
    LET cfg == plan.cfg
        rs == plan.rs
    IN /\ rs.chroma_hex = cfg["chroma"]["hex"]
       /\ rs.similarity = cfg["chroma"]["similarity"]
       /\ rs.blend = cfg["chroma"]["blend"]
       /\ rs.fit = cfg["fit"]
       /\ rs.fps = cfg["output"]["fps"]
       /\ rs.crf = cfg["output"]["crf"]
       /\ rs.preset = cfg["output"]["preset"]
       /\ rs.template_video = cfg["template_video"]
       /\ <<rs.x, rs.y, rs.w, rs.h>> =
            <<cfg["placeholder"].x, cfg["placeholder"].y,
              cfg["placeholder"].w, cfg["placeholder"].h>>
       /\ (BorderConfigured(cfg) /\ plan.onDisk) => rs.border_path = cfg["border_png"]

\* Text b is text a without its "#" characters and with its letters in
\* lower case.
Normalised(a, b) ==
  LET bare == SelectSeq(a, LAMBDA ch : ch # "#")
  IN /\ Len(b) = Len(bare)
     /\ \A i \in 1 .. Len(b) :
          /\ LowerChar(bare[i]) = b[i]
          /\ \A j \in 1 .. 26 : b[i] # UpperCase[j]

\* Number b is the non-negative number a without its fraction.
Truncated(a, b) == b.d = 1 /\ b.n * a.d <= a.n /\ a.n < (b.n + 1) * a.d

\* C14 amended: resolving a config in which every field is present
\* substitutes no default and yields each stored value in the form the code
\* works with: chroma.hex in lower case without "#", fit in lower case, fps,
\* crf and the placeholder's numbers without their fraction, the others
\* exactly; a value already in that form is yielded exactly.
C14_ExplicitValuesNormalised ==
  (Resolved /\ AllPresent(plan.cfg)) =>
    LET cfg == plan.cfg
        rs == plan.rs
    IN /\ Normalised(cfg["chroma"]["hex"], rs.chroma_hex)
       /\ Normalised(cfg["fit"], rs.fit)
       /\ Normalised(cfg["chroma"]["hex"], cfg["chroma"]["hex"])
            => rs.chroma_hex = cfg["chroma"]["hex"]
       /\ Normalised(cfg["fit"], cfg["fit"]) => rs.fit = cfg["fit"]
       /\ rs.similarity = cfg["chroma"]["similarity"]
       /\ rs.blend = cfg["chroma"]["blend"]
       /\ Truncated(cfg["output"]["fps"], rs.fps)
       /\ Truncated(cfg["output"]["crf"], rs.crf)
       /\ cfg["output"]["fps"].d = 1 => rs.fps = cfg["output"]["fps"]
       /\ cfg["output"]["crf"].d = 1 => rs.crf = cfg["output"]["crf"]
       /\ Truncated(cfg["placeholder"].x, rs.x) /\ Truncated(cfg["placeholder"].y, rs.y)
       /\ Truncated(cfg["placeholder"].w, rs.w) /\ Truncated(cfg["placeholder"].h, rs.h)
       /\ rs.preset = cfg["output"]["preset"]
       /\ rs.template_video = cfg["template_video"]
       /\ (BorderConfigured(cfg) /\ plan.onDisk) => rs.border_path = cfg["border_png"]

\* A config with every field present, "#00FF00" and fps 29.97 among them, has
\* been resolved and rendered.
C14_TypedConfigRendered ==
  /\ plan.pc = "done"
  /\ AllPresent(plan.cfg)
  /\ plan.cfg["chroma"]["hex"] = <<"#", "0", "0", "F", "F", "0", "0">>
  /\ plan.rs.chroma_hex = <<"0", "0", "f", "f", "0", "0">>
  /\ plan.cfg["output"]["fps"] = Frac(2997, 100) /\ plan.rs.fps = Num(29)

\* ffmpeg has run the command.
Ran == plan.pc \in {"done", "failed"}

\* A sw by sh frame has the aspect ratio of the iw by ih image, to within the
\* rounding of one dimension to whole pixels.
SameAspect(sw, sh, iw, ih) == 2 * Abs(sw * ih - sh * iw) <= Max(iw, ih)

\* C15: with fit cover, for every placeholder and image size, the image is
\* scaled with its aspect ratio kept so that the scaled width and height are
\* at least w and h, and the photo layer after the crop is exactly w by h (a
\* 400 by 600 image in an 800 by 800 placeholder: 800 by 1200, then 800 by
\* 800).
C15_CoverFillsPlaceholder ==
  (Ran /\ plan.rs.fit = <<"c", "o", "v", "e", "r">>) =>
    LET w == plan.cfg["placeholder"].w.n
        h == plan.cfg["placeholder"].h.n
        p == plan.photo
    IN /\ p.ok
       /\ p.scaled[1] >= w /\ p.scaled[2] >= h
       /\ SameAspect(p.scaled[1], p.scaled[2], plan.image[1], plan.image[2])
       /\ p.size = <<w, h>>
       /\ (plan.image = <<400, 600>> /\ w = 800 /\ h = 800)
            => p.scaled = <<800, 1200>>

\* C16: with fit contain, for every placeholder and image size, the image is
\* scaled with its aspect ratio kept so that the scaled width and height are
\* at most w and h, and the photo layer after the padding is exactly w by h
\* with the image centred, the padding on opposite sides differing by at
\* most one pixel (a 1600 by 400 image in an 800 by 800 placeholder: 800 by
\* 200, padded by 300 pixels above and below).
C16_ContainFitsPlaceholder ==
  (Ran /\ plan.rs.fit = <<"c", "o", "n", "t", "a", "i", "n">>) =>
    LET w == plan.cfg["placeholder"].w.n
        h == plan.cfg["placeholder"].h.n
        p == plan.photo
    IN /\ p.ok
       /\ p.scaled[1] <= w /\ p.scaled[2] <= h
       /\ SameAspect(p.scaled[1], p.scaled[2], plan.image[1], plan.image[2])
       /\ p.size = <<w, h>>
       /\ Abs(p.left - p.right) <= 1 /\ Abs(p.top - p.bottom) <= 1
       /\ (plan.image = <<1600, 400>> /\ w = 800 /\ h = 800)
            => p.scaled = <<800, 200>> /\ p.top = 300 /\ p.bottom = 300

\* The colorkey filter of the command.
KeyFilter(c) ==
  LET i == CHOOSE i \in KeyingSteps(c) : TRUE
      fs == c.filter_complex[i].filters
  IN fs[CHOOSE j \in 1 .. Len(fs) : fs[j].name = "colorkey"]

\* C17: the colorkey filter of the command carries the resolved chroma hex
\* (as 0x<hex>), similarity and blend, and the encoder options carry the
\* resolved fps, crf and preset; a config with hex 00ff00, similarity 0.3,
\* blend 0.1, fps 24, crf 23 and preset fast has exactly these in its command.
C17_ParametersVerbatim ==
  Built =>
    LET c == plan.cmd
        rs == plan.rs
        cfg == plan.cfg
        k == KeyFilter(c)
    IN /\ k.args = <<<<"0", "x">> \o rs.chroma_hex, rs.similarity, rs.blend>>
       /\ c.r = rs.fps.n /\ c.crf = rs.crf.n /\ c.preset = rs.preset
       /\ (ChromaHas(cfg, "hex") /\ cfg["chroma"]["hex"] = <<"0", "0", "f", "f", "0", "0">>)
            => k.args[1] = <<"0", "x", "0", "0", "f", "f", "0", "0">>
       /\ (ChromaHas(cfg, "similarity") /\ cfg["chroma"]["similarity"] = Frac(3, 10))
            => k.args[2] = Frac(3, 10)
       /\ (ChromaHas(cfg, "blend") /\ cfg["chroma"]["blend"] = Frac(1, 10))
            => k.args[3] = Frac(1, 10)
       /\ (OutputHas(cfg, "fps") /\ cfg["output"]["fps"] = Num(24)) => c.r = 24
       /\ (OutputHas(cfg, "crf") /\ cfg["output"]["crf"] = Num(23)) => c.crf = 23
       /\ (OutputHas(cfg, "preset") /\ cfg["output"]["preset"] = "fast")
            => c.preset = "fast"

\* The scenario's config has been rendered: 00ff00, 0.3, 0.1 in the colorkey
\* filter, 24, 23, fast in the encoder options.
C17_ScenarioRendered ==
  /\ plan.pc = "done"
  /\ AllPresent(plan.cfg)
  /\ plan.cfg["chroma"] =
       [hex |-> <<"0", "0", "f", "f", "0", "0">>,
        similarity |-> Frac(3, 10), blend |-> Frac(1, 10)]
  /\ KeyFilter(plan.cmd).args =
       <<<<"0", "x", "0", "0", "f", "f", "0", "0">>, Frac(3, 10), Frac(1, 10)>>
  /\ plan.cmd.r = 24 /\ plan.cmd.crf = 23 /\ plan.cmd.preset = "fast"

(***************************************************************************)
(* Properties of the requests, under Spec.                                 *)
(***************************************************************************)
\* How many processes of step s request r has started.
Launches(r, s) ==
  Cardinality({i \in 1 .. Len(req[r].launched) : req[r].launched[i] = s})

\* The steps whose non-zero status is a failure of their stage (the probes of
\* the generators ignore the status).
CheckedSteps ==
  {"intro_write", "intro_audio", "ensure_ffmpeg", "ensure_ffprobe",
   "main_probe", "main_encode", "outro_write", "outro_audio", "concat"}

\* C18: in one request no process step is started twice; the main composition
\* is one encode invocation and the concatenation one invocation, whose list
\* the request wrote as its intro, main and outro clip in that order; a
\* process that failed is the last the request started, the request has
\* ended with that failure, and a request that has ended starts nothing more.
C18_OnePassNoRetry ==
  /\ [](\A r \in Requests :
          /\ \A s \in ProcessSteps : Launches(r, s) <= 1
          /\ req[r].pc \in {"outro_probe", "outro_write", "outro_audio",
                            "concat_list", "concat", "done"}
               => Launches(r, "main_encode") = 1
          /\ (req[r].pc = "done" /\ req[r].mode = "app") => Launches(r, "concat") = 1
          /\ files[ConcatListPath].by = r =>
               files[ConcatListPath].list =
                 <<IntroPath(req[r].ts), MainPath(req[r].ts), OutroPath(req[r].ts)>>
          /\ \A i \in 1 .. Len(req[r].rcs) :
               (req[r].rcs[i] # 0 /\ req[r].launched[i] \in CheckedSteps)
                 => /\ i = Len(req[r].launched)
                    /\ req[r].pc = "failed"
                    /\ req[r].err # NoErr)
  /\ [][\A r \in Requests : Ended(r) => req'[r] = req[r]]_vars

\* One request has failed in its encode and another has run to the end, the
\* encode and the concatenation started once each.
C18_FailedAndFinishedSeen ==
  \E r \in Requests : \E s \in Requests :
    /\ FailedAt(r, "run") /\ Launches(r, "main_encode") = 1
    /\ req[r].launched[Len(req[r].launched)] = "main_encode"
    /\ req[s].pc = "done" /\ req[s].mode = "app"
    /\ Launches(s, "main_encode") = 1 /\ Launches(s, "concat") = 1

\* The concat process of request r returns in this step.
ConcatReturns(r) ==
  req[r].pc = "concat" /\ req[r].running = {"concat"} /\ req'[r].running = {}

\* C19: when the concat process has returned, on success and on failure, the
\* list file is gone, and a list file that was already missing did not turn
\* into an error: the request ends done on a zero status and with the
\* concatenation's own error on a non-zero one.
C19_ListFileRemoved ==
  [][\A r \in Requests :
       ConcatReturns(r) =>
         /\ ~FileExists(ConcatListPath)'
         /\ req'[r].rcs[Len(req'[r].rcs)] = 0 => req'[r].pc = "done"
         /\ req'[r].rcs[Len(req'[r].rcs)] # 0 => FailedAt(r, "concatenate")'
         /\ req'[r].unlinked \in {"removed", "missing"}]_vars

\* One request's concatenation has failed and removed the list file; the
\* other's has then succeeded with the list file already missing.
C19_MissingListSeen ==
  \E r \in Requests : \E s \in Requests :
    /\ FailedAt(r, "concatenate") /\ req[r].unlinked = "removed"
    /\ req[s].pc = "done" /\ req[s].unlinked = "missing"
    /\ ~FileExists(ConcatListPath)

\* The failure of command-line run r came with a description on its stderr:
\* render.py's own message, the traceback of the exception, or the
\* diagnostics of the failed process, whose stderr render.py shares.
Described(r) ==
  \/ Printed(req[r].err) \in {"message", "traceback"}
  \/ /\ Len(req[r].rcs) > 0
     /\ req[r].rcs[Len(req[r].rcs)] # 0
     /\ InheritsStderr(req[r].launched[Len(req[r].rcs)])

ContainChain(w, h) ==
  <<Filter("scale", <<w, h, "decrease">>),
    Filter("pad", <<w, h, "(ow-iw)/2", "(oh-ih)/2">>)>>

CoverChain(w, h) ==
  <<Filter("scale", <<w, h, "increase">>), Filter("crop", <<w, h>>)>>

\* The photo chain of the built command.
PhotoChain == plan.cmd.filter_complex[1].filters

\* The fit value the config holds, or the default's.
ConfiguredFit == Get(plan.cfg, "fit", DefaultFit)

\* A string fit value chooses its chain without regard to case: the contain
\* chain when it is "contain" in any case, the cover chain for every other
\* string; the plan uses exactly one of the two chains.
FitChoosesChain ==
  Built =>
    /\ lower(ConfiguredFit) = Contain => PhotoChain = ContainChain(plan.rs.w.n, plan.rs.h.n)
    /\ lower(ConfiguredFit) # Contain => PhotoChain = CoverChain(plan.rs.w.n, plan.rs.h.n)
    /\ ContainChain(plan.rs.w.n, plan.rs.h.n) # CoverChain(plan.rs.w.n, plan.rs.h.n)

\* C21: the fit policy is chosen case-insensitively, every fit value other
\* than "contain" produces the cover chain, exactly one of the two chains is
\* used in a plan, and no fit value ends the call with an error.
C21_FitNeverFails ==
  /\ FitChoosesChain
  /\ plan.pc # "raised"

\* A misspelled fit value has been rendered with the cover chain, and an
\* upper-case "CONTAIN" with the contain chain.
FitFallbackRendered ==
  /\ plan.pc = "done"
  /\ ConfiguredFit \in
       {<<"c", "o", "n", "t", "i", "a", "n">>, <<"C", "O", "N", "T", "A", "I", "N">>}

(***************************************************************************)
(* The raw JSON editor, under EditorSpec.                                  *)
(***************************************************************************)
\* Save JSON is handled in this step.
SavePressed == editor.run = NoRun /\ editor'.run # NoRun

\* C22: Save with a text that is not valid JSON changes neither
\* template.json nor the session's template_config and shows an error; Save
\* with valid JSON writes template.json and sets template_config, and what
\* template.json then holds parses to the value template_config holds, the
\* value of the text; template.json never holds anything but valid JSON.
C22_SaveOnlyValidJson ==
  /\ [](loads(editor.persisted).ok)
  /\ [][SavePressed =>
          LET new_config == loads(editor'.run.text)
          IN IF ~new_config.ok
             THEN /\ editor'.persisted = editor.persisted
                  /\ editor'.config = editor.config
                  /\ editor'.run.shown = "error"
             ELSE /\ editor'.config = new_config.val
                  /\ loads(editor'.persisted).val = editor'.config
                  /\ editor'.run.shown = "success"]_vars

\* After {"fit": 1} was saved, a text with a comma in the place of the colon
\* has been refused: template.json and template_config still hold the value
\* saved before.
C22_InvalidRefusedAfterSave ==
  /\ editor.run # NoRun
  /\ editor.run.shown = "error"
  /\ editor.run.text = <<Punct("{"), StrTok("fit"), Punct(","), Punct("}")>>
  /\ editor.config = JObj("fit" :> JNum("1"))
  /\ editor.persisted # save_template_config(TemplateConfig)
  /\ loads(editor.persisted).val = editor.config

====
